---------------------------- MODULE Spec2Model ----------------------------
(***************************************************************************)
(* Model of runpod/scripts/download_models.py: a top-to-bottom script that *)
(* logs in to the hub when HF_TOKEN is set, calls dl() on a fixed catalog  *)
(* of model files and prints an inventory of the models directory.         *)
(*                                                                         *)
(* Strings that the code takes apart are sequences of tokens: "/" is the   *)
(* path separator, a last token of a file name that starts with "." is its *)
(* suffix, and every other token is a run of characters without "/".  A    *)
(* path is the token sequence of its parts joined by "/".                  *)
(***************************************************************************)
EXTENDS Naturals, Integers, Sequences, FiniteSets, TLC

VARIABLES
    HF_TOKEN,   \* TRUE iff os.environ HF_TOKEN is set and non-empty (line 39)
    fs,         \* file path -> content ("absent" when there is no file)
    fs0,        \* the file system as it was when the script started
    dirs,       \* the directories that exist
    pc,         \* position in the script: 0 login, 1..NCatalog a dl statement,
                \* NCatalog+1 the summary
    status,     \* "running", "done" (fell off the end), "aborted" (traceback)
    exit,       \* process exit status, -1 while the process runs
    requests,   \* file path -> number of hf_hub_download calls made for it
    calls,      \* the dl invocations so far: <<[art, dest, result]>>
    last,       \* what the latest dl invocation did
    faults,     \* environment faults injected so far
    stdout,     \* which of the script's own (non-dl) messages were printed
    inventory,  \* what the summary listed: directory -> file names
    args,       \* arguments handed to the file name derivation
    ret         \* its result

vars == <<HF_TOKEN, fs, fs0, dirs, pc, status, exit, requests, calls, last,
          faults, stdout, inventory, args, ret>>

(***************************************************************************)
(* Bounds of the model.                                                    *)
(***************************************************************************)
MaxPre == 1       \* catalog files already on disk when the run starts
MaxFaults == 1    \* environment faults (hub, copy, mkdir, unlink, login) per run
MaxCalls == 3     \* dl invocations of the free-standing call specification
MaxLen == 3       \* tokens in a generated hf_path

(***************************************************************************)
(* Strings and paths.                                                      *)
(***************************************************************************)
Sep == "/"

\* The greatest index of a "/" in s, 0 when there is none.
RECURSIVE LastSep(_, _)
LastSep(s, i) ==
    IF i = 0 THEN 0
    ELSE IF s[i] = Sep THEN i
    ELSE LastSep(s, i - 1)

\* s.rsplit("/", 1)[-1]
RSplitLast(s) == SubSeq(s, LastSep(s, Len(s)) + 1, Len(s))

\* The optional dest_name argument: None, or a string (possibly empty).
None == [given |-> FALSE, val |-> <<>>]
Str(s) == [given |-> TRUE, val |-> s]

\* Python truthiness of an optional string.
Truthy(o) == o.given /\ o.val # <<>>

\* A variant of the derivation that splits at the last "/" and keeps the
\* part before it.
DestNameFirstSegment(hf_path, dest_name) ==
    IF Truthy(dest_name) THEN dest_name.val
    ELSE IF LastSep(hf_path, Len(hf_path)) = 0 THEN hf_path
    ELSE SubSeq(hf_path, 1, LastSep(hf_path, Len(hf_path)) - 1)
\* line 52: name = dest_name or hf_path.rsplit("/", 1)[-1]
DestName(hf_path, dest_name) ==
    IF Truthy(dest_name) THEN dest_name.val ELSE RSplitLast(hf_path)

\* pathlib's dir / name
Join(dir, name) == dir \o <<Sep>> \o name

\* pathlib's parent and name of a path
Parent(p) == SubSeq(p, 1, LastSep(p, Len(p)) - 1)
BaseName(p) == RSplitLast(p)

\* A directory and all the directories above it (mkdir parents=True).
RECURSIVE WithParents(_)
WithParents(d) ==
    IF LastSep(d, Len(d)) = 0 THEN {d}
    ELSE {d} \cup WithParents(Parent(d))

\* The directories mkdir(parents=True) of dir has to create in d, and the
\* n of them nearest the root, which it creates first.
Missing(dir, d) == WithParents(dir) \ d
MkdirMade(dir, d, n) ==
    {x \in Missing(dir, d) :
        Cardinality({y \in Missing(dir, d) : Len(y) < Len(x)}) < n}

\* pathlib's suffix: the last dot-part of the file name, "" when the name has
\* none or is nothing but that part.
DotTokens == {".safetensors", ".bin", ".pt", ".txt"}
Suffix(p) ==
    LET n == BaseName(p)
    IN IF Len(n) >= 2 /\ n[Len(n)] \in DotTokens THEN n[Len(n)] ELSE ""

\* line 294: the suffixes the inventory lists
ModelSuffixes == {".safetensors", ".bin", ".pt"}

(***************************************************************************)
(* Configuration (lines 38-41).  Paths are relative to COMFYUI_DIR.        *)
(***************************************************************************)
MODELS == <<"models">>
Sub(d) == Join(MODELS, <<d>>)
SubDirs == {Sub("checkpoints"), Sub("vae"), Sub("text_encoders"),
            Sub("diffusion_models")}

St(stem) == <<stem, ".safetensors">>
Art(repo, path, dir, nm, tok) ==
    [repo_id |-> repo, hf_path |-> path, dest_dir |-> Sub(dir),
     dest_name |-> nm, needsToken |-> tok]

(***************************************************************************)
(* The catalog: the dl statements of lines 88-284 in script order.         *)
(* needsToken marks the statement inside "if HF_TOKEN:" (line 153).        *)
(***************************************************************************)
CatalogBase ==
    << Art("stable-diffusion-v1-5/stable-diffusion-v1-5",
           St("v1-5-pruned-emaonly"), "checkpoints", None, FALSE),
       Art("stabilityai/stable-diffusion-xl-base-1.0",
           St("sd_xl_base_1.0"), "checkpoints", None, FALSE),
       Art("madebyollin/sdxl-vae-fp16-fix",
           St("sdxl_vae"), "vae", None, FALSE),
       Art("comfyanonymous/flux_text_encoders",
           St("clip_l"), "text_encoders", None, FALSE),
       Art("comfyanonymous/flux_text_encoders",
           St("t5xxl_fp8_e4m3fn"), "text_encoders", None, FALSE),
       Art("black-forest-labs/FLUX.1-schnell",
           St("ae"), "vae", Str(St("flux1-ae")), FALSE),
       Art("black-forest-labs/FLUX.1-dev",
           St("flux1-dev"), "diffusion_models", None, TRUE),
       Art("Comfy-Org/vae-text-encorder-for-flux-klein-4b",
           <<"split_files", Sep, "vae", Sep>> \o St("flux2-vae"),
           "vae", Str(St("flux2-vae")), FALSE),
       Art("Comfy-Org/vae-text-encorder-for-flux-klein-4b",
           <<"split_files", Sep, "text_encoders", Sep>> \o St("qwen_3_4b"),
           "text_encoders", Str(St("qwen_3_4b")), FALSE),
       Art("black-forest-labs/FLUX.2-klein-4b-fp8",
           St("flux-2-klein-4b-fp8"), "diffusion_models", None, FALSE),
       Art("Comfy-Org/vae-text-encorder-for-flux-klein-9b",
           <<"split_files", Sep, "text_encoders", Sep>>
               \o St("qwen_3_8b_fp8mixed"),
           "text_encoders", Str(St("qwen_3_8b_fp8mixed")), FALSE),
       Art("black-forest-labs/FLUX.2-klein-9b-fp8",
           St("flux-2-klein-9b-fp8"), "diffusion_models", None, FALSE),
       Art("Comfy-Org/Qwen-Image_ComfyUI",
           <<"split_files", Sep, "vae", Sep>> \o St("qwen_image_vae"),
           "vae", Str(St("qwen_image_vae")), FALSE),
       Art("Comfy-Org/Qwen-Image_ComfyUI",
           <<"split_files", Sep, "text_encoders", Sep>>
               \o St("qwen_2.5_vl_7b_fp8_scaled"),
           "text_encoders", Str(St("qwen_2.5_vl_7b_fp8_scaled")), FALSE),
       Art("Comfy-Org/Qwen-Image_ComfyUI",
           <<"split_files", Sep, "diffusion_models", Sep>>
               \o St("qwen_image_fp8_e4m3fn"),
           "diffusion_models", Str(St("qwen_image_fp8_e4m3fn")), FALSE),
       Art("Comfy-Org/Qwen-Image-Edit_ComfyUI",
           <<"split_files", Sep, "diffusion_models", Sep>>
               \o St("qwen_image_edit_2509_fp8_e4m3fn"),
           "diffusion_models", Str(St("qwen_image_edit_2509_fp8_e4m3fn")),
           FALSE) >>

\* A catalog whose last statement declares the shared FLUX.2 VAE a second time.
CatalogRedeclared ==
    [CatalogBase EXCEPT ![16] =
        Art("Comfy-Org/vae-text-encorder-for-flux-klein-9b",
            <<"split_files", Sep, "vae", Sep>> \o St("flux2-vae"),
            "vae", None, FALSE)]
Catalog == CatalogBase

NCatalog == Len(Catalog)

\* line 53: dest = dest_dir / name
Dest(a) == Join(a.dest_dir, DestName(a.hf_path, a.dest_name))

CatalogPaths == {Dest(Catalog[i]) : i \in 1..NCatalog}
GatedPaths == {Dest(Catalog[i]) : i \in {j \in 1..NCatalog : Catalog[j].needsToken}}


(***************************************************************************)
(* The environment of one dl call: what each system call it may make does. *)
(***************************************************************************)
\* made: when mkdir fails, how many of the missing directories it had
\* created, from the top down, before the os.mkdir that failed.
AllOk == [mkdir |-> "ok", made |-> 0, hub |-> "ok", copy |-> "ok",
          unlink |-> "ok"]
HubErrors == {"not_found", "unauthorized", "network_error"}
Envs ==
    {AllOk}
    \cup {[AllOk EXCEPT !.hub = h] : h \in HubErrors}
    \cup {[AllOk EXCEPT !.copy = "fail_nofile"],
          [AllOk EXCEPT !.copy = "fail_partial"],
          [AllOk EXCEPT !.copy = "fail_partial", !.unlink = "fail"]}

\* Path.exists(): a file or a directory is there.
Exists(f, d, p) == p \in d \/ (p \in DOMAIN f /\ f[p] # "absent")

NoCall == [art |-> None, name |-> <<>>, dest |-> <<>>, existed |-> FALSE,
           wrote |-> FALSE, requested |-> FALSE, partial |-> FALSE,
           env |-> AllOk, cause |-> "none", result |-> "none"]

\* Variants of the presence check: one that accepts only a file known to
\* be whole, one that rejects a damaged file, one that never finds the file.
ExistsCheckIntactOnly(f, d, p) == p \in DOMAIN f /\ f[p] = "intact"
ExistsCheckSizeOk(f, d, p) == p \in DOMAIN f /\ f[p] \in {"intact", "fetched"}
ExistsCheckNever(f, d, p) == FALSE
\* line 55: if dest.exists()
ExistsCheck(f, d, p) == Exists(f, d, p)

\* A variant of the handler that leaves the destination as it is.
CleanupKeepsPartial(f, d, p) == f
\* lines 73-74: if dest.exists(): dest.unlink()
Cleanup(f, d, p) ==
    IF Exists(f, d, p) THEN [f EXCEPT ![p] = "absent"] ELSE f

(***************************************************************************)
(* dl (lines 50-75) on artifact a in file system (f, d) under environment  *)
(* e: the file system it leaves and what it did.  result is "true" or      *)
(* "false" for the value returned and "raised" when an exception leaves    *)
(* dl.  wrote says whether any call that writes the file system (mkdir,    *)
(* copy2, unlink) was made, env is the environment the call ran in.        *)
(***************************************************************************)
dl(a, f, d, e) ==
    LET name == DestName(a.hf_path, a.dest_name)
        dest == Join(a.dest_dir, name)
        call == [NoCall EXCEPT !.art = a, !.name = name, !.dest = dest,
                               !.env = e]
        d1 == d \cup WithParents(a.dest_dir)
        d0 == d \cup MkdirMade(a.dest_dir, d, e.made)
        req == [call EXCEPT !.wrote = TRUE, !.requested = TRUE]
    IN  IF ExistsCheck(f, d, dest)
        THEN \* lines 55-57
             [fs |-> f, dirs |-> d,
              info |-> [call EXCEPT !.existed = TRUE, !.result = "true"]]
        ELSE IF e.mkdir = "fail"
        THEN \* line 59 raises, outside the try
             \* with the directories above the failing one created
             [fs |-> f, dirs |-> d0,
              info |-> [call EXCEPT !.wrote = TRUE, !.cause = "mkdir",
                                    !.result = "raised"]]
        ELSE IF e.hub # "ok"
        THEN \* line 63 raises: lines 71-75, nothing was written to dest
             [fs |-> Cleanup(f, d1, dest), dirs |-> d1,
              info |-> [req EXCEPT !.cause = "hub", !.result = "false"]]
        ELSE IF e.copy = "ok"
        THEN \* lines 68-70
             [fs |-> [f EXCEPT ![dest] = "fetched"], dirs |-> d1,
              info |-> [req EXCEPT !.result = "true"]]
        ELSE IF e.copy = "fail_nofile"
        THEN \* line 68 raises before dest is created
             [fs |-> Cleanup(f, d1, dest), dirs |-> d1,
              info |-> [req EXCEPT !.cause = "copy", !.result = "false"]]
        ELSE IF e.unlink = "ok"
        THEN \* line 68 raises with dest partly written; line 74 removes it
             [fs |-> Cleanup([f EXCEPT ![dest] = "partial"], d1, dest),
              dirs |-> d1,
              info |-> [req EXCEPT !.partial = TRUE, !.cause = "copy",
                                   !.result = "false"]]
        ELSE \* line 74 raises inside the handler
             [fs |-> [f EXCEPT ![dest] = "partial"], dirs |-> d1,
              info |-> [req EXCEPT !.partial = TRUE, !.cause = "unlink",
                                   !.result = "raised"]]

\* The ways line 59 can fail: at the os.mkdir of any one of the missing
\* directories, after the missing ones above it were created.
MkdirFails(a, d) ==
    {[AllOk EXCEPT !.mkdir = "fail", !.made = n] :
        n \in 0..(Cardinality(Missing(a.dest_dir, d)) - 1)}

\* The environments that differ in effect for a dl call on a in (f, d):
\* no system call is made when dest exists, and mkdir(exist_ok=True) of a
\* directory that exists does nothing.
EnvsFor(a, f, d) ==
    IF ExistsCheck(f, d, Dest(a)) THEN {AllOk}
    ELSE Envs \cup MkdirFails(a, d)


(***************************************************************************)
(* The summary (lines 293-299): for every entry of MODELS in sorted order, *)
(* the entries in it with a model suffix; an entry is printed when it has  *)
(* any.  iterdir() of an entry that is not a directory raises.             *)
(***************************************************************************)
\* Path.iterdir(): the files and directories directly in dir.
Entries(f, d, dir) ==
    {x \in d : Len(x) > 0 /\ Parent(x) = dir}
    \cup {q \in DOMAIN f : f[q] # "absent" /\ Parent(q) = dir}

\* sorted() of line 293 orders the entries by name; the names of entries
\* of MODELS, in that order (upper case before lower case).
EntryOrder == <<"README", "checkpoints", "diffusion_models", "notes",
                "text_encoders", "vae">>
Rank(x) == CHOOSE i \in 1..Len(EntryOrder) : EntryOrder[i] = BaseName(x)[1]

\* line 294: the names in sub that have a model suffix
Listed(f, d, sub) ==
    {BaseName(p) : p \in {q \in Entries(f, d, sub) :
                             Suffix(q) \in ModelSuffixes}}

\* The entries of MODELS that are not directories: line 294 raises
\* NotADirectoryError on the first of them.
NotDirs(f, d) == {x \in Entries(f, d, MODELS) : x \notin d}
SummaryRaises(f, d) == NotDirs(f, d) # {}

\* What the loop prints: the listing of every entry it gets through, which
\* are those sorted before the first entry that is not a directory.
Summary(f, d) ==
    LET visited == {x \in Entries(f, d, MODELS) :
                       \A y \in NotDirs(f, d) : Rank(x) < Rank(y)}
        shown == {x \in visited : Listed(f, d, x) # {}}
    IN [x \in shown |-> Listed(f, d, x)]

\* The exit status of a script that runs off its end (line 302), given the
\* results of its dl calls, which the script discards.
ExitAtEnd(cs) == 0

(***************************************************************************)
(* The run of the script.                                                  *)
(***************************************************************************)
Placeholder(sub) == Join(sub, <<"put_models_here">>)
\* Files that are not models, directly in MODELS.
Strays == {Join(MODELS, <<"README", ".txt">>), Join(MODELS, <<"notes", ".txt">>)}
RunPaths == CatalogPaths \cup {Placeholder(x) : x \in SubDirs} \cup Strays

DirsOf(f) == UNION {WithParents(Parent(p)) : p \in {q \in DOMAIN f : f[q] # "absent"}}

NoArgs == [hf_path |-> <<>>, dest_name |-> None]

Common ==
    /\ pc = 0
    /\ status = "running"
    /\ exit = -1
    /\ calls = <<>>
    /\ last = NoCall
    /\ faults = 0
    /\ stdout = {}
    /\ inventory = <<>>
    /\ fs0 = fs
    /\ requests = [p \in DOMAIN fs |-> 0]

\* COMFYUI_DIR is a fresh directory, or a ComfyUI checkout without models
\* ("stock": the model directories exist, each holding a placeholder file),
\* or such a checkout with one more file directly in MODELS, or holds what
\* an earlier run left: at most MaxPre catalog files, all intact or all
\* damaged, and their directories.
Layouts == {[stock |-> FALSE, stray |-> {}], [stock |-> TRUE, stray |-> {}]}
           \cup {[stock |-> TRUE, stray |-> {x}] : x \in Strays}

InitRun ==
    /\ HF_TOKEN \in BOOLEAN
    /\ \E pre \in {S \in SUBSET CatalogPaths : Cardinality(S) <= MaxPre} :
       \E kind \in IF pre = {} THEN {"intact"} ELSE {"intact", "corrupt"} :
       \E layout \in IF pre = {} THEN Layouts
                                   ELSE {[stock |-> FALSE, stray |-> {}]} :
          /\ fs = [p \in RunPaths |->
                     IF p \in pre THEN kind
                     ELSE IF p \in CatalogPaths THEN "absent"
                     ELSE IF p \in Strays
                     THEN IF p \in layout.stray THEN "intact" ELSE "absent"
                     ELSE IF layout.stock THEN "intact" ELSE "absent"]
          /\ dirs = DirsOf(fs)
    /\ args = NoArgs
    /\ ret = <<>>
    /\ Common

Abort ==
    /\ status' = "aborted"
    /\ exit' = 1

\* lines 43-47
Login ==
    /\ status = "running"
    /\ pc = 0
    /\ UNCHANGED <<HF_TOKEN, fs, fs0, dirs, requests, calls, last, inventory,
                   args, ret>>
    /\ IF HF_TOKEN
       THEN \E ok \in BOOLEAN :
              IF ok
              THEN /\ stdout' = stdout \cup {"logged_in"}
                   /\ pc' = 1
                   /\ UNCHANGED <<status, exit, faults>>
              ELSE \* login() raises on a token the hub rejects
                   /\ faults < MaxFaults
                   /\ faults' = faults + 1
                   /\ Abort
                   /\ UNCHANGED <<pc, stdout>>
       ELSE /\ stdout' = stdout \cup {"token_hint"}
            /\ pc' = 1
            /\ UNCHANGED <<status, exit, faults>>

\* The environments the fault budget of the model (MaxFaults) still allows.
Affordable(es) == {e \in es : e = AllOk \/ faults < MaxFaults}

\* The effect of one dl call on the state, shared by the script's dl
\* statements and by free-standing calls.
Invoke(a, e) ==
    \E r \in {dl(a, fs, dirs, e)} :
        /\ faults' = IF e = AllOk THEN faults ELSE faults + 1
        /\ fs' = r.fs
        /\ dirs' = r.dirs
        /\ last' = r.info
        /\ calls' = Append(calls, [art |-> a, dest |-> r.info.dest,
                                   result |-> r.info.result])
        /\ requests' = IF r.info.requested
                       THEN [requests EXCEPT ![r.info.dest] = @ + 1]
                       ELSE requests
        /\ IF r.info.result = "raised"
           THEN Abort
           ELSE UNCHANGED <<status, exit>>

\* Variants of the guard: none at all, and one with the test turned round.
GuardNone(a) == TRUE
GuardInverted(a) == a.needsToken => ~HF_TOKEN
\* line 153: the guard of a dl statement
Guard(a) == a.needsToken => HF_TOKEN

\* A dl statement of the script (lines 90-284).
DlStep ==
    /\ status = "running"
    /\ pc \in 1..NCatalog
    /\ Guard(Catalog[pc])
    /\ \E e \in Affordable(EnvsFor(Catalog[pc], fs, dirs)) :
          Invoke(Catalog[pc], e)
    /\ pc' = IF status' = "running" THEN pc + 1 ELSE pc
    /\ UNCHANGED <<HF_TOKEN, fs0, stdout, inventory, args, ret>>

\* lines 159-161: the else branch of "if HF_TOKEN"
SkipGated ==
    /\ status = "running"
    /\ pc \in 1..NCatalog
    /\ ~Guard(Catalog[pc])
    /\ stdout' = stdout \cup {"skipped_gated"}
    /\ pc' = pc + 1
    /\ UNCHANGED <<HF_TOKEN, fs, fs0, dirs, status, exit, requests, calls,
                   last, faults, inventory, args, ret>>

\* lines 290-302
PrintSummary ==
    /\ status = "running"
    /\ pc = NCatalog + 1
    /\ IF MODELS \notin dirs
       THEN \* lines 290-292, then MODELS.iterdir() raises
            /\ stdout' = stdout \cup {"inventory"}
            /\ Abort
            /\ UNCHANGED inventory
       ELSE IF SummaryRaises(fs, dirs)
       THEN \* the loop raises at an entry that is not a directory
            /\ inventory' = Summary(fs, dirs)
            /\ stdout' = stdout \cup {"inventory"}
            /\ Abort
       ELSE \* lines 290-302
            /\ inventory' = Summary(fs, dirs)
            /\ stdout' = stdout \cup {"inventory", "comfyui_root"}
            /\ status' = "done"
            /\ exit' = ExitAtEnd(calls)
    /\ UNCHANGED <<HF_TOKEN, fs, fs0, dirs, pc, requests, calls, last,
                   faults, args, ret>>

Next == Login \/ DlStep \/ SkipGated \/ PrintSummary

Spec == InitRun /\ [][Next]_vars


(***************************************************************************)
(* dl called on its own: any of a few artifacts, in any order, in any      *)
(* file system.  Two of the artifacts resolve to the same destination,     *)
(* one by an override and one by the name derived from hf_path.            *)
(***************************************************************************)
ArtifactSpecs ==
    { Catalog[6], Catalog[7], Catalog[8],
      Art("Comfy-Org/vae-text-encorder-for-flux-klein-9b",
          <<"split_files", Sep, "vae", Sep>> \o St("flux2-vae"),
          "vae", None, FALSE) }

CallPaths == {Dest(a) : a \in ArtifactSpecs}

InitCalls ==
    /\ HF_TOKEN \in BOOLEAN
    /\ fs \in [CallPaths -> {"absent", "intact", "corrupt"}]
    /\ dirs = DirsOf(fs)
    /\ args = NoArgs
    /\ ret = <<>>
    /\ Common

\* A call of dl; an exception that leaves it ends the caller.
Call ==
    /\ status = "running"
    /\ Len(calls) < MaxCalls
    /\ \E a \in ArtifactSpecs :
       \E e \in Affordable(EnvsFor(a, fs, dirs)) : Invoke(a, e)
    /\ UNCHANGED <<HF_TOKEN, fs0, pc, stdout, inventory, args, ret>>

NextCalls == Call

SpecCalls == InitCalls /\ [][NextCalls]_vars

(***************************************************************************)
(* The file name derivation of line 52 on generated arguments.             *)
(***************************************************************************)
Alphabet == {"a", ".bin", Sep}

RECURSIVE Strings(_)
Strings(n) ==
    IF n = 0 THEN {<<>>}
    ELSE LET shorter == Strings(n - 1)
         IN shorter \cup {Append(s, c) : s \in shorter, c \in Alphabet}

Overrides == {None, Str(<<>>), Str(<<"x">>), Str(<<"x", Sep, "y", ".pt">>)}

InitName ==
    /\ args \in [hf_path : Strings(MaxLen), dest_name : Overrides]
    /\ ret = <<>>
    /\ HF_TOKEN = FALSE
    /\ fs = <<>>
    /\ dirs = {}
    /\ Common

DeriveName ==
    /\ status = "running"
    /\ ret' = DestName(args.hf_path, args.dest_name)
    /\ status' = "done"
    /\ UNCHANGED <<HF_TOKEN, fs, fs0, dirs, pc, exit, requests, calls, last,
                   faults, stdout, inventory, args>>

NextName == DeriveName

SpecName == InitName /\ [][NextName]_vars


(***************************************************************************)
(* Properties.                                                             *)
(***************************************************************************)
\* The step is a dl invocation; last' describes it.
IsCall == calls' # calls

\* A dl invocation that left the file system and the hub alone and
\* returned True.
NoOpSuccess ==
    /\ fs' = fs
    /\ dirs' = dirs
    /\ requests' = requests
    /\ ~last'.wrote
    /\ ~last'.requested
    /\ last'.result = "true"

\* C1 (SpecCalls): a dl invocation whose destination path exists when it
\* is called, whatever the content there, requests no download, leaves the
\* file system as it is and returns True.
C1_ExistingDestIsNoOp ==
    [][(IsCall /\ Exists(fs, dirs, last'.dest)) => NoOpSuccess]_vars

C1_Witness ==
    /\ calls # <<>>
    /\ last.existed
    /\ last.result = "true"
    /\ fs0[last.dest] = "corrupt"
    /\ fs[last.dest] = "corrupt"
    /\ requests[last.dest] = 0

\* The hub download or the copy of the latest dl invocation raised.
TransferFailed(c) ==
    c.requested /\ (c.env.hub # "ok" \/ c.env.copy # "ok")

\* C2 (Spec): when the hub download or the copy raises during a dl
\* statement and dl returns, it returns False, no file is at the
\* destination path afterwards, and the script goes on to its next
\* statement.
C2_TransferFailureCleansUp ==
    [][(IsCall /\ TransferFailed(last') /\ last'.result # "raised")
          => /\ last'.result = "false"
             /\ ~Exists(fs', dirs', last'.dest)
             /\ status' = "running"
             /\ pc' = pc + 1]_vars

C2_Witness ==
    /\ last.partial
    /\ last.env.copy = "fail_partial"
    /\ last.result = "false"
    /\ fs[last.dest] = "absent"
    /\ requests[last.dest] = 1
    /\ status = "running"
    /\ pc \in 2..NCatalog
    /\ last.art = Catalog[pc - 1]

\* C3 (Spec): no outcome of a fetch leaves dl as an exception: the run is
\* never ended by a dl statement.
C3_NoFetchOutcomePropagates ==
    ~(status = "aborted" /\ calls # <<>> /\ last.result = "raised")

\* C4 (Spec): without a credential no dl call and no download request is
\* made for the gated artifact, its statement prints the skip message, and
\* every other statement the script has passed was a dl call.
C4_GatedSkippedWithoutToken ==
    ~HF_TOKEN =>
        /\ \A k \in 1..Len(calls) :
              ~calls[k].art.needsToken /\ calls[k].dest \notin GatedPaths
        /\ \A p \in GatedPaths : requests[p] = 0 /\ fs[p] = fs0[p]
        /\ \A i \in 1..NCatalog :
              i < pc =>
                 IF Catalog[i].needsToken
                 THEN "skipped_gated" \in stdout
                 ELSE \E k \in 1..Len(calls) : calls[k].art = Catalog[i]

C4_Witness ==
    /\ ~HF_TOKEN
    /\ status = "done"
    /\ "skipped_gated" \in stdout
    /\ Len(calls) = NCatalog - 1
    /\ \A p \in GatedPaths : fs[p] = "absent"

\* The step is a dl invocation on a destination path that an earlier
\* invocation with the given result resolved to.
SecondCallAfter(results) ==
    /\ IsCall
    /\ \E j \in 1..Len(calls) :
          calls[j].dest = last'.dest /\ calls[j].result \in results

\* The step is a dl invocation on a destination path that an earlier
\* invocation on another artifact resolved to.
SecondOfTwoArtifacts ==
    /\ IsCall
    /\ \E j \in 1..Len(calls) :
          calls[j].dest = last'.dest /\ calls[j].art # last'.art

\* C5 as stated (SpecCalls): the second of two dl invocations on two
\* artifacts that resolve to the same destination path is a no-op success.
C5_SecondCallIsNoOp ==
    [][SecondOfTwoArtifacts => NoOpSuccess]_vars

\* C5 as amended (SpecCalls): the second of two dl invocations that
\* resolve to the same destination path is a no-op success when the first
\* one returned True.
C5_SecondCallAfterSuccessIsNoOp ==
    [][SecondCallAfter({"true"}) => NoOpSuccess]_vars

C5_Witness ==
    /\ Len(calls) >= 2
    /\ \E j \in 1..(Len(calls) - 1) :
          /\ calls[j].dest = last.dest
          /\ calls[j].art # last.art
          /\ calls[j].result = "true"
          /\ fs0[last.dest] = "absent"
    /\ last.existed
    /\ last.result = "true"
    /\ requests[last.dest] = 1

\* The run started in an empty root directory without a credential.
EmptyStart ==
    /\ ~HF_TOKEN
    /\ \A p \in DOMAIN fs0 : fs0[p] = "absent"

NonGated == {i \in 1..NCatalog : ~Catalog[i].needsToken}

\* What the end-to-end scenario expects of a finished run.
EndToEndResult ==
    /\ "skipped_gated" \in stdout
    /\ \A i \in NonGated : Exists(fs, dirs, Dest(Catalog[i]))
    /\ DOMAIN inventory = SubDirs
    /\ \A x \in SubDirs : inventory[x] # {}
    /\ \A x \in DOMAIN inventory :
          \A p \in GatedPaths : BaseName(p) \notin inventory[x]

\* C6 as stated (Spec): a run from an empty root without a credential
\* that reaches its end has skipped the gated group, holds every non-gated
\* artifact and lists the four directories without the gated file.
C6_EndToEnd ==
    (EmptyStart /\ status = "done") => EndToEndResult

\* C6 as amended (Spec): from an empty root without a credential, a run
\* in which every dl call returns True does not abort, and at its end it
\* has skipped the gated group, holds every non-gated artifact and lists
\* the four directories without the gated file.
C6_EndToEndWhenFetchesSucceed ==
    (EmptyStart /\ \A k \in 1..Len(calls) : calls[k].result = "true")
        => /\ status # "aborted"
           /\ status = "done" => EndToEndResult

C6_Witness ==
    /\ EmptyStart
    /\ status = "done"
    /\ Len(calls) = NCatalog - 1
    /\ \A k \in 1..Len(calls) : calls[k].result = "true"
    /\ \A i \in NonGated : fs[Dest(Catalog[i])] = "fetched"

\* n is the last "/"-separated segment of s: a tail of s without "/" that
\* is all of s or follows a "/".
IsLastSegment(n, s) ==
    /\ Len(n) <= Len(s)
    /\ n = SubSeq(s, Len(s) - Len(n) + 1, Len(s))
    /\ \A i \in 1..Len(n) : n[i] # Sep
    /\ Len(n) = Len(s) \/ s[Len(s) - Len(n)] = Sep

\* C7 (SpecName): the file name is the override when a non-empty one is
\* given and the last "/"-separated segment of hf_path otherwise; the flux2
\* VAE path without an override gives "flux2-vae.safetensors".
C7_DestinationName ==
    /\ status = "done" =>
          IF args.dest_name.given /\ args.dest_name.val # <<>>
          THEN ret = args.dest_name.val
          ELSE IsLastSegment(ret, args.hf_path)
    /\ DestName(<<"split_files", Sep, "vae", Sep, "flux2-vae", ".safetensors">>,
                None) = <<"flux2-vae", ".safetensors">>

C7_Witness ==
    /\ status = "done"
    /\ ~args.dest_name.given
    /\ Len(args.hf_path) = 3
    /\ args.hf_path[2] = Sep
    /\ ret = <<args.hf_path[3]>>
    /\ ret # <<Sep>>

\* C8 (Spec): a process that has ended after some dl call did not return
\* True has exit status 0, like a run in which every call succeeds.
C8_ExitStatusUndifferentiated ==
    (exit # -1 /\ \E k \in 1..Len(calls) : calls[k].result # "true")
        => exit = 0

CatalogPathsDistinct ==
    \A i, j \in 1..NCatalog : Dest(Catalog[i]) = Dest(Catalog[j]) => i = j

\* C9 (Spec): the dl statements of the catalog resolve to pairwise
\* different paths and no path is requested from the hub more than once.
C9_AtMostOneFetchPerPath ==
    /\ CatalogPathsDistinct
    /\ \A p \in DOMAIN requests : requests[p] <= 1

C9_Witness ==
    /\ status = "done"
    /\ \E k \in 1..Len(calls) : calls[k].result = "false"
    /\ \E p \in CatalogPaths : fs0[p] # "absent" /\ requests[p] = 0
    /\ \E p \in CatalogPaths : fs[p] = "fetched" /\ requests[p] = 1
    /\ \E p \in CatalogPaths : fs[p] = "absent" /\ requests[p] = 1

\* C10 (Spec): every file that was there when the run started is still
\* there with its content.
C10_PreexistingFilesKept ==
    \A p \in DOMAIN fs0 : fs0[p] # "absent" => fs[p] = fs0[p]

C10_Witness ==
    /\ status = "done"
    /\ \E p \in CatalogPaths : fs0[p] = "corrupt" /\ fs[p] = "corrupt"
    /\ last.partial
    /\ last.result = "false"

=============================================================================
